---- MODULE Spec2Model ----
(***************************************************************************)
(* Model of djangocore/api/models/query_translator.py: the translator that *)
(* turns a SproutCore query string into a tree of Django Q objects.        *)
(*                                                                         *)
(* Text is modelled as a sequence of one-character strings, so that the    *)
(* three regular expressions of the translator are matched character by    *)
(* character, with the priorities of a backtracking matcher (leftmost      *)
(* start, greedy/lazy quantifiers, alternatives in order).                 *)
(***************************************************************************)
EXTENDS Integers, Sequences, FiniteSets, TLC

----------------------------------------------------------------------------
(* Characters and text                                                     *)

UpperCase ==
    <<"A","B","C","D","E","F","G","H","I","J","K","L","M",
      "N","O","P","Q","R","S","T","U","V","W","X","Y","Z">>

LowerCase ==
    <<"a","b","c","d","e","f","g","h","i","j","k","l","m",
      "n","o","p","q","r","s","t","u","v","w","x","y","z">>

Digits == <<"0","1","2","3","4","5","6","7","8","9">>

Range(f) == {f[i] : i \in DOMAIN f}

\* str.lower() of one character (also what re.IGNORECASE compares)
lower(ch) ==
    IF ch \in Range(UpperCase)
    THEN LowerCase[CHOOSE i \in DOMAIN UpperCase : UpperCase[i] = ch]
    ELSE ch

\* the character class [a-zA-Z\_\.]
IsFieldChar(ch) == ch \in Range(UpperCase) \cup Range(LowerCase) \cup {"_", "."}

\* the character class [0-9]
IsDigit(ch) == ch \in Range(Digits)

\* the character class \s, and the characters str.strip() removes
IsSpace(ch) == ch \in {" ", "\t", "\n", "\r", "\f"}

\* s[i:j] with 1-based i and exclusive j
Slice(s, i, j) == SubSeq(s, i, j - 1)

\* str.lower()
lowerAll(s) == [k \in 1..Len(s) |-> lower(s[k])]

\* a literal of a pattern compiled with re.IGNORECASE matches s at position i
LitAt(s, i, lit) ==
    /\ i >= 1
    /\ i + Len(lit) - 1 <= Len(s)
    /\ \A k \in 1..Len(lit) : lower(s[i + k - 1]) = lower(lit[k])

\* str.strip()
strip(s) ==
    LET nonspace == {k \in 1..Len(s) : ~IsSpace(s[k])}
    IN  IF nonspace = {} THEN << >>
        ELSE LET lo == CHOOSE k \in nonspace : \A n \in nonspace : k <= n
                 hi == CHOOSE k \in nonspace : \A n \in nonspace : k >= n
             IN  Slice(s, lo, hi + 1)

\* str.replace(ch, "") for a one-character ch
RECURSIVE remove(_, _)
remove(s, ch) ==
    IF s = << >> THEN << >>
    ELSE IF Head(s) = ch THEN remove(Tail(s), ch)
    ELSE <<Head(s)>> \o remove(Tail(s), ch)

\* str.replace(".", "__")
RECURSIVE dots(_)
dots(s) ==
    IF s = << >> THEN << >>
    ELSE IF Head(s) = "." THEN <<"_", "_">> \o dots(Tail(s))
    ELSE <<Head(s)>> \o dots(Tail(s))

\* str.find(ch) != -1
contains(s, ch) == \E k \in 1..Len(s) : s[k] = ch

\* int(value) of a string of digits
RECURSIVE int(_)
int(s) ==
    IF s = << >> THEN 0
    ELSE int(SubSeq(s, 1, Len(s) - 1)) * Len(Digits)
         + (CHOOSE d \in 0..(Len(Digits) - 1) : Digits[d + 1] = s[Len(s)])

\* str.split(',')
RECURSIVE split(_)
split(s) ==
    IF ~contains(s, ",") THEN <<s>>
    ELSE LET k == CHOOSE i \in 1..Len(s) :
                     s[i] = "," /\ \A n \in 1..(i - 1) : s[n] # ","
         IN  <<Slice(s, 1, k)>> \o split(Slice(s, k + 1, Len(s) + 1))

----------------------------------------------------------------------------
(* The grammar tables                                                      *)

c_and == <<"a","n","d">>
c_or  == <<"o","r">>
c_not == <<"n","o","t">>

\* the dictionary django_operators, as (key, value) pairs in source order
django_operators ==
 << << <<"B","E","G","I","N","S","_","W","I","T","H">>,
       <<"s","t","a","r","t","s","w","i","t","h">> >>,
    << <<"E","N","D","S","_","W","I","T","H">>,
       <<"e","n","d","s","w","i","t","h">> >>,
    << <<"N","O","T"," ","B","E","G","I","N","S","_","W","I","T","H">>,
       <<"~","s","t","a","r","t","s","w","i","t","h">> >>,
    << <<"N","O","T"," ","E","N","D","S","_","W","I","T","H">>,
       <<"~","e","n","d","s","w","i","t","h">> >>,
    << <<"C","O","N","T","A","I","N","S">>,
       <<"c","o","n","t","a","i","n","s">> >>,
    << <<"I","C","O","N","T","A","I","N","S">>,
       <<"i","c","o","n","t","a","i","n","s">> >>,
    << <<"N","O","T"," ","C","O","N","T","A","I","N","S">>,
       <<"~","c","o","n","t","a","i","n","s">> >>,
    << <<"M","A","T","C","H","E","S">>,
       <<"r","e","g","e","x">> >>,
    << <<"A","N","Y">>,
       <<"i","n">> >>,
    << <<"N","O","T"," ","A","N","Y">>,
       <<"~","i","n">> >>,
    << <<"=">>,
       <<"e","x","a","c","t">> >>,
    << <<"!","=">>,
       <<"~","e","x","a","c","t">> >>,
    << <<"<">>,
       <<"l","t">> >>,
    << <<">">>,
       <<"g","t">> >>,
    << <<">","=">>,
       <<"g","t","e">> >>,
    << <<"<","=">>,
       <<"l","t","e">> >>,
    << <<"i","n">>,
       <<"i","n">> >>,
    << <<"N","O","T"," ","I","N">>,
       <<"~","i","n">> >>,
    << <<"N","O","T">>,
       <<"n","o","t">> >> >>

\* the orders in which django_operators.keys() may list the keys: the order of
\* a dict is not defined by the language, so the table is read either front to
\* back or back to front
KeyOrders == {"forward", "backward"}

\* operatorlist(): the keys, in the order the dict yields them
operatorlist(order) ==
    [k \in 1..Len(django_operators) |->
        IF order = "forward" THEN django_operators[k][1]
        ELSE django_operators[Len(django_operators) + 1 - k][1]]

\* logiclist()
logiclist == <<c_and, c_or, c_not>>

\* "key in django_operators": the lookup is by the exact spelling
HasKey(tok) == \E k \in DOMAIN django_operators : django_operators[k][1] = tok

\* django_operators[key]
Lookup(tok) ==
    django_operators[CHOOSE k \in DOMAIN django_operators :
                         django_operators[k][1] = tok][2]

----------------------------------------------------------------------------
(* The regular expressions                                                 *)
(*                                                                         *)
(* A backtracking matcher tries its choices in a fixed order and keeps the *)
(* first that lets the whole pattern match.  Each choice point below is a  *)
(* set of <<priority, outcome>> pairs, of which the pair of least priority *)
(* with an outcome other than "no match" is taken.  Positions are 1-based; *)
(* "no match" is 0 for a position and << >> for a tuple of positions.      *)

Least(S) == CHOOSE k \in S : \A n \in S : k <= n

\* the outcome of the first choice that is not `none`, or `none`
First(choices, none) ==
    IF \A c \in choices : c[2] = none THEN none
    ELSE (CHOOSE c \in choices :
              c[2] # none /\ \A d \in choices : d[2] # none => c[1] <= d[1])[2]

\* the length of the first alternative of `alts` that matches s at i, or 0
FirstAlt(s, i, alts) ==
    First({<<k, IF LitAt(s, i, alts[k]) THEN Len(alts[k]) ELSE 0>> : k \in DOMAIN alts}, 0)

\* (?:and|or|not) at i: the length of the keyword matched, or 0
KeywordAt(s, i) == FirstAlt(s, i, logiclist)

\* (?:and|or|not)* from i: the position after the longest run of keywords
RECURSIVE KeywordRun(_, _)
KeywordRunAfter(s, i, n) == IF n = 0 THEN i ELSE KeywordRun(s, i + n)
KeywordRun(s, i) == KeywordRunAfter(s, i, KeywordAt(s, i))

\* [a-zA-Z\_\.]* from i: the number of characters of the longest run
RECURSIVE FieldRun(_, _)
FieldRun(s, i) ==
    IF i <= Len(s) /\ IsFieldChar(s[i]) THEN 1 + FieldRun(s, i + 1) ELSE 0

\* [0-9]* from i: the number of characters of the longest run
RECURSIVE DigitRun(_, _)
DigitRun(s, i) ==
    IF i <= Len(s) /\ IsDigit(s[i]) THEN 1 + DigitRun(s, i + 1) ELSE 0

SpaceAt(s, i) == i <= Len(s) /\ IsSpace(s[i])

\* \s? at j: the positions the pattern may go on from, the space taken first
Optional(s, j) == IF SpaceAt(s, j) THEN <<j + 1, j>> ELSE <<j>>

\* position o moved by a match of n characters; no match stays no match
Advance(o, n) == IF n = 0 THEN 0 ELSE o + n

\* the match from position `from` to before position `to`
Span(from, to) == IF to = 0 THEN << >> ELSE <<from, to>>

\* ex1 after the field: \s?(?:operators) at j.  The rest of ex1 cannot fail,
\* so the first operator that matches is kept.  The position after it, or 0.
OperatorEnd(s, j, ops) ==
    First({<<k, Advance(Optional(s, j)[k], FirstAlt(s, Optional(s, j)[k], ops))>> :
              k \in DOMAIN Optional(s, j)}, 0)

\* ex1: the greedy field of at most flen characters gives characters back
\* until an operator follows
BlockOperatorEnd(s, i, flen, ops) ==
    First({<<k, OperatorEnd(s, i + flen + 1 - k, ops)>> : k \in 1..flen}, 0)

\* ex1 from the operator's end p: .*? stops at the first keyword or at the end
\* of the text (q), (?:and|or|not|$)+ takes the run of keywords (to r), \s? one
\* space (to r2) and (?:and|or|not|$)? one more keyword
BlockTailKeyword(s, r2) == r2 + KeywordAt(s, r2)

BlockTailSpace(s, r) == BlockTailKeyword(s, IF SpaceAt(s, r) THEN r + 1 ELSE r)

BlockTail(s, p) ==
    BlockTailSpace(s, KeywordRun(s,
        Least({q \in p..(Len(s) + 1) : KeywordAt(s, q) # 0 \/ q = Len(s) + 1})))

\* big_block_expression matched at i: the position after the match, or 0
BlockEnd(s, p) == IF p = 0 THEN 0 ELSE BlockTail(s, p)

BlockAt(s, i, ops) == BlockEnd(s, BlockOperatorEnd(s, i, FieldRun(s, i), ops))

\* big_block_expression.findall(query) from position i on: the matches, each
\* searched for from the end of the one before
RECURSIVE findall(_, _, _)
NextBlock(s, ops, block) ==
    IF block = << >> THEN << >>
    ELSE <<Slice(s, block[1], block[2])>> \o findall(s, block[2], ops)

findall(s, i, ops) ==
    NextBlock(s, ops,
        First({<<k, Span(k, BlockAt(s, k, ops))>> : k \in i..Len(s)}, << >>))

\* '.*?' or \{.*?\} or \(.*?\) at v: the position after the first closing
\* character, or 0
Enclosed(s, v, open, close) ==
    IF s[v] = open /\ \E k \in (v + 1)..Len(s) : s[k] = close
    THEN Least({k \in (v + 1)..Len(s) : s[k] = close}) + 1
    ELSE 0

\* the four value forms of ex2 at v: '.*?' | \{.*?\} | [0-9]+ | \(.*?\)
\* The position after the value, or 0.
ValueEnd(s, v) ==
    IF v > Len(s) THEN 0
    ELSE First({ <<1, Enclosed(s, v, "'", "'")>>,
                 <<2, Enclosed(s, v, "{", "}")>>,
                 <<3, Advance(v, DigitRun(s, v))>>,
                 <<4, Enclosed(s, v, "(", ")")>> }, 0)

\* ex2 after the operator, which ends before e: \s?(value).
\* <<start, end>> of the value, or << >>.
ValueSpan(s, e) ==
    First({<<k, Span(Optional(s, e)[k], ValueEnd(s, Optional(s, e)[k]))>> :
              k \in DOMAIN Optional(s, e)}, << >>)

\* ex2 after the field: (operators)\s?(value) at o, the alternatives in order.
\* <<operator start, operator end, value start, value end>>, or << >>.
Prefixed(head, span) == IF span = << >> THEN << >> ELSE head \o span

OperatorValue(s, o, ops) ==
    First({<<k, IF LitAt(s, o, ops[k])
                THEN Prefixed(<<o, o + Len(ops[k])>>, ValueSpan(s, o + Len(ops[k])))
                ELSE << >> >> : k \in DOMAIN ops}, << >>)

\* ex2 with a field from i to before j: \s? then the operator and the value.
\* The three groups as <<field start, field end, operator start, ...>>.
ClauseWith(s, i, j, ops) ==
    First({<<k, Prefixed(<<i, j>>, OperatorValue(s, Optional(s, j)[k], ops))>> :
              k \in DOMAIN Optional(s, j)}, << >>)

\* ex2 at i: the greedy field of at most flen characters gives characters back
\* until the rest matches
ClauseAt(s, i, flen, ops) ==
    First({<<k, ClauseWith(s, i, i + flen + 1 - k, ops)>> : k \in 1..flen}, << >>)

\* match.groups()
Groups(s, g) ==
    IF g = << >> THEN << >>
    ELSE <<Slice(s, g[1], g[2]), Slice(s, g[3], g[4]), Slice(s, g[5], g[6])>>

\* small_block_expression.search(exp): the groups of the leftmost match, or << >>
search(s, ops) ==
    Groups(s, First({<<k, ClauseAt(s, k, FieldRun(s, k), ops)>> : k \in 1..Len(s)}, << >>))

\* re.findall("(?:and|or|not)+$", text, re.IGNORECASE): a list holding the run
\* of keywords that ends the text as ONE string, or the empty list
RunToEnd(t, k) ==
    IF KeywordAt(t, k) # 0 /\ KeywordRun(t, k) = Len(t) + 1
    THEN <<Slice(t, k, Len(t) + 1)>> ELSE << >>

combinatorList(t) == First({<<k, RunToEnd(t, k)>> : k \in 1..Len(t)}, << >>)

----------------------------------------------------------------------------
(* Python values and Q objects                                             *)

None == <<"None">>

\* an int, a str (its characters) and a list (its elements)
IntValue(n)  == <<"int", n>>
StrValue(s)  == <<"str", s>>
ListValue(l) == <<"list", l>>

\* the exception that ends a call
Raise(name) == <<"raise", name>>

\* bool(value), as `if parameters.get(rfield_):` takes it
Truthy(value) ==
    CASE value[1] = "int"  -> value[2] # 0
      [] value[1] = "str"  -> value[2] # << >>
      [] value[1] = "list" -> value[2] # << >>
      [] OTHER             -> FALSE

\* Q(**{key: value}), ~q, a & b, a | b
Q(key, value) == <<"Q", key, value>>
Invert(q)     == <<"~", q>>
And(a, b)     == <<"&", a, b>>
Or(a, b)      == <<"|", a, b>>

\* parameters.get(name): the dict is a sequence of <<name, value>> pairs
get(parameters, name) ==
    IF \E k \in DOMAIN parameters : parameters[k][1] = name
    THEN parameters[CHOOSE k \in DOMAIN parameters : parameters[k][1] = name][2]
    ELSE None

\* logic_expression(list): the three flags, set by comparing each element of
\* the list, in lower case, with the three keywords
logic_expression(list) ==
    <<"logic_expression",
      \E k \in DOMAIN list : lowerAll(list[k]) = c_and,
      \E k \in DOMAIN list : lowerAll(list[k]) = c_or,
      \E k \in DOMAIN list : lowerAll(list[k]) = c_not>>

has_and(combinator) == combinator[2]
has_or(combinator)  == combinator[3]
has_not(combinator) == combinator[4]

\* combinator.has_not = value
SetNot(combinator, value) ==
    <<"logic_expression", has_and(combinator), has_or(combinator), value>>

\* convert_value(value): a non-string is returned as it is; in a string the
\* quotes are removed, digits give an int, "(" gives the list of the converted
\* elements, anything else the string.  value[0] of the empty string raises.
RECURSIVE convert_value(_)
Gather(elems) ==
    IF \E k \in DOMAIN elems : elems[k] = Raise("IndexError")
    THEN Raise("IndexError")
    ELSE ListValue(elems)

ConvertElements(parts) ==
    Gather([k \in DOMAIN parts |-> convert_value(StrValue(strip(parts[k])))])

ConvertText(v) ==
    IF v # << >> /\ \A k \in DOMAIN v : IsDigit(v[k]) THEN IntValue(int(v))
    ELSE IF v = << >> THEN Raise("IndexError")
    ELSE IF v[1] = "(" THEN ConvertElements(split(Slice(v, 2, Len(v))))
    ELSE StrValue(v)

convert_value(value) ==
    IF value[1] # "str" THEN value ELSE ConvertText(remove(value[2], "'"))

\* evaluate_not(n, obj)
evaluate_not(n, obj) == IF n THEN Invert(obj) ELSE obj

\* the parameter substitution of parse: a value with a "{" is looked up, the
\* braces removed, and replaced when the value found is true
Found(rfield, value) == IF Truthy(value) THEN value ELSE StrValue(rfield)

Substitute(rfield, parameters) ==
    IF contains(rfield, "{")
    THEN Found(rfield, get(parameters, remove(remove(rfield, "{"), "}")))
    ELSE StrValue(rfield)

\* lines 283-286: obj combined with the clause q under the combinator
\* (a variant whose second branch is a plain else: a combinator without "and"
\* combines with OR)
CombineWithOrByDefault(q, obj, combinator) ==
    IF has_and(combinator)
    THEN <<And(obj, evaluate_not(has_not(combinator), q)), combinator>>
    ELSE <<Or(obj, evaluate_not(has_not(combinator), q)), combinator>>

Combine(q, obj, combinator) ==
    IF has_and(combinator)
    THEN <<And(obj, evaluate_not(has_not(combinator), q)), combinator>>
    ELSE IF has_or(combinator)
    THEN <<Or(obj, evaluate_not(has_not(combinator), q)), combinator>>
    ELSE <<obj, combinator>>

\* lines 275-288: with a combinator, a "~" operator flips its has_not and the
\* clause is combined; without one, the clause becomes obj
\* (a variant without lines 279-281: under a combinator the "~" of the operator
\* is forgotten)
BuildWithoutFlip(q, inverted, obj, combinator) ==
    IF combinator # None
    THEN Combine(q, obj, combinator)
    ELSE <<evaluate_not(inverted, q), combinator>>

Build(q, inverted, obj, combinator) ==
    IF combinator # None
    THEN Combine(q, obj, IF inverted
                         THEN SetNot(combinator, ~has_not(combinator))
                         ELSE combinator)
    ELSE <<evaluate_not(inverted, q), combinator>>

\* lines 256-272: the Q object of the clause
Leaf(lfield, operator, rfield, obj, combinator) ==
    IF rfield[1] = "raise" THEN rfield
    ELSE Build(Q(lfield \o <<"_", "_">> \o remove(operator, "~"), rfield),
               operator[1] = "~", obj, combinator)

\* the body of `for entry in self.stack:` for a tuple entry, with the loop's
\* obj and combinator: <<obj, combinator>> after it, or the exception raised
FoldTuple(entry, obj, combinator, parameters) ==
    IF ~HasKey(entry[3]) THEN Raise("KeyError")
    ELSE Leaf(dots(entry[2]), Lookup(entry[3]),
              convert_value(Substitute(entry[4], parameters)), obj, combinator)

\* the body of the loop for a list entry
FoldList(entry, obj, combinator) ==
    IF obj # None THEN <<obj, logic_expression(entry[2])>> ELSE <<obj, combinator>>

\* one pass of the loop body
FoldEntry(entry, obj, combinator, parameters) ==
    IF entry[1] = "tuple"
    THEN FoldTuple(entry, obj, combinator, parameters)
    ELSE FoldList(entry, obj, combinator)

\* what the first loop of parse appends to the stack for one block: the groups
\* of the clause when the block has one, then the list of combinators
Entry(groups) == IF groups = << >> THEN << >> ELSE << <<"tuple">> \o groups >>

Tuples(exp, ops) ==
    IF strip(exp) = << >> THEN << >> ELSE Entry(search(exp, ops))

Lists(exp) ==
    IF strip(exp) = << >> THEN << >> ELSE << <<"list", combinatorList(strip(exp))>> >>

----------------------------------------------------------------------------
(* translator.parse run alone, from its first line to its return           *)

\* the first loop: the stack after the blocks m[i..] have been appended
RECURSIVE Segments(_, _, _)
Segments(m, i, ops) ==
    IF i > Len(m) THEN << >>
    ELSE Tuples(m[i], ops) \o Lists(m[i]) \o Segments(m, i + 1, ops)

\* the second loop from position pos of the stack on, and the return
RECURSIVE FoldFrom(_, _, _, _, _)
FoldNext(entries, pos, next, parameters) ==
    IF next[1] = "raise" THEN next
    ELSE FoldFrom(entries, pos + 1, next[1], next[2], parameters)

FoldFrom(entries, pos, obj, combinator, parameters) ==
    IF pos > Len(entries) THEN <<"return", obj>>
    ELSE FoldNext(entries, pos,
                  FoldEntry(entries[pos], obj, combinator, parameters), parameters)

\* `len(query.strip())==""` compares an int with a str: never equal
IsEmptyQuery(query) == FALSE

\* parse(query, parameters) of a translator no other call is using
ParseBlocks(query, m, parameters, ops) ==
    IF IsEmptyQuery(query) \/ m = << >> THEN <<"return", None>>
    ELSE FoldFrom(Segments(m, 1, ops), 1, None, None, parameters)

parse(query, parameters, order) ==
    ParseBlocks(query, findall(query, 1, operatorlist(order)), parameters,
                operatorlist(order))

----------------------------------------------------------------------------
(* The callers' inputs                                                     *)

Sp == <<" ">>

\* "field OP value"
Clause(field, op, value) == field \o Sp \o op \o Sp \o value

\* "clause RUN clause"
Joined(left, run, right) == left \o Sp \o run \o Sp \o right

\* field names: plain, dotted, and one that holds the letters of "or"
Fields == { <<"a">>, <<"o",".","b">>, <<"o","r","e">> }

\* the operator tokens as the table spells them
OperatorKeys == {django_operators[k][1] : k \in DOMAIN django_operators}

\* value texts, each with the literal it denotes: a quoted string, an integer,
\* a list, and a quoted string that holds the letters of "or"
Values ==
    { << <<"'","x","'">>,             StrValue(<<"x">>) >>,
      << <<"1","2">>,                 IntValue(12) >>,
      << <<"(","1",",","2",")">>,     ListValue(<<IntValue(1), IntValue(2)>>) >>,
      << <<"'","t","o","r","'">>,     StrValue(<<"t","o","r">>) >> }

\* the placeholder {p} and the parameter maps it is resolved against
Placeholder == <<"{","p","}">>

NoParameters == << >>

Bound(value) == << << <<"p">>, value >> >>

ParameterValues ==
    { IntValue(42), IntValue(0), StrValue(<< >>), StrValue(<<"7">>), StrValue(<<"x">>) }

ParameterMaps == {NoParameters} \cup {Bound(v) : v \in ParameterValues}

\* single clauses with a literal value, and with the placeholder
LiteralInputs ==
    { <<Clause(f, op, v[1]), NoParameters>> : f \in Fields, op \in OperatorKeys, v \in Values }

PlaceholderInputs ==
    { <<Clause(f, op, Placeholder), ps>> : f \in Fields, op \in OperatorKeys, ps \in ParameterMaps }

\* the operator tokens in lower case and in upper case
upperAll(s) ==
    [k \in 1..Len(s) |->
        IF s[k] \in Range(LowerCase)
        THEN UpperCase[CHOOSE i \in DOMAIN LowerCase : LowerCase[i] = s[k]]
        ELSE s[k]]

Spellings(op) == {op, lowerAll(op), upperAll(op)}

SpellingInputs ==
    { <<Clause(<<"a">>, sp, <<"1","2">>), NoParameters>> :
        sp \in UNION {Spellings(op) : op \in OperatorKeys} }

\* lists of zero to three elements, and the empty quoted string
Lists123 ==
    { << <<"(",")">>,                         << >> >>,
      << <<"(","1",")">>,                     <<IntValue(1)>> >>,
      << <<"(","1",",","2",",","3",")">>,     <<IntValue(1), IntValue(2), IntValue(3)>> >>,
      << <<"(","1",","," ","'","x","'",")">>, <<IntValue(1), StrValue(<<"x">>)>> >> }

ListOperators == { <<"A","N","Y">>, <<"N","O","T"," ","I","N">>, <<"i","n">> }

ListInputs ==
    { <<Clause(<<"a">>, op, l[1]), NoParameters>> : op \in ListOperators, l \in Lists123 }

EmptyString == <<"'","'">>

EmptyStringInputs == { <<Clause(<<"a">>, <<"=">>, EmptyString), NoParameters>> }

\* clauses the clause matcher's grammar accepts, as <<field, operator, value
\* text, literal>>, and blocks it finds no match in
GoodParts ==
    { << <<"a">>, <<"=">>, <<"1">>, IntValue(1) >>,
      << <<"a">>, <<"!","=">>, <<"'","x","'">>, StrValue(<<"x">>) >>,
      << <<"a">>, <<"=">>, <<"'","t","o","r","'">>, StrValue(<<"t","o","r">>) >> }

GoodClauses == { Clause(g[1], g[2], g[3]) : g \in GoodParts }

GarbledClauses ==
    { <<"b"," ","="," ","z","z">>, <<"b"," ","="," ","'","x">> }

\* runs of logical keywords between two clauses
Keywords == { c_and, c_or, c_not, <<"A","N","D">> }

Runs ==
    Keywords \cup
    { <<"a","n","d"," ","o","r">>, <<"o","r"," ","a","n","d">>,
      <<"a","n","d"," ","n","o","t">>, <<"o","r"," ","n","o","t">>,
      <<"a","n","d","o","r">> }

GarbledInputs ==
    { <<Joined(g, k, b), NoParameters>> : g \in GoodClauses, k \in Keywords, b \in GarbledClauses }
    \cup
    { <<Joined(b, k, g), NoParameters>> : g \in GoodClauses, k \in Keywords, b \in GarbledClauses }

\* two clauses joined by a run
SecondClauses ==
    { Clause(<<"b">>, <<"=">>, <<"2">>), Clause(<<"b">>, <<"!","=">>, <<"2">>) }

JoinedInputs ==
    { <<Joined(Clause(<<"a">>, <<"=">>, <<"1">>), r, c), NoParameters>> :
        r \in Runs, c \in SecondClauses }

\* three clauses of which the middle one is garbled: its block leaves only
\* its combinators on the stack
SkippedMiddle(k1, b, k2) ==
    Joined(Joined(Clause(<<"a">>, <<"=">>, <<"1">>), k1, b), k2,
           Clause(<<"c">>, <<"=">>, <<"3">>))

SkippedMiddleInputs ==
    { <<SkippedMiddle(k1, b, k2), NoParameters>> :
        k1 \in Range(logiclist), b \in GarbledClauses, k2 \in Range(logiclist) }

\* queries of one to three clauses, each with the clauses it is made of, as
\* <<field, operator, value text, literal>> in the order of the text: three
\* clauses under "and" and "or", one clause twice, and one clause whose quoted
\* value reads like a keyword and a clause
ThreeParts ==
    << << <<"a">>, <<"=">>, <<"1">>, IntValue(1) >>,
       << <<"b">>, <<"!","=">>, <<"2">>, IntValue(2) >>,
       << <<"c">>, <<"=">>, <<"3">>, IntValue(3) >> >>

Text(part) == Clause(part[1], part[2], part[3])

QuotedClause ==
    << <<"a">>, <<"=">>, <<"'","x"," ","o","r"," ","b"," ","="," ","2","'">>,
       StrValue(<<"x"," ","o","r"," ","b"," ","="," ","2">>) >>

ClauseQueries ==
    { << Joined(Joined(Text(ThreeParts[1]), k1, Text(ThreeParts[2])), k2, Text(ThreeParts[3])),
         ThreeParts >> : k1 \in {c_and, c_or}, k2 \in {c_and, c_or} }
    \cup
    { << Joined(Text(ThreeParts[1]), k, Text(ThreeParts[1])),
         <<ThreeParts[1], ThreeParts[1]>> >> : k \in {c_and, c_or} }
    \cup
    { << Joined(Text(ThreeParts[1]), r, Text(ThreeParts[2])),
         <<ThreeParts[1], ThreeParts[2]>> >> : r \in Runs }
    \cup
    { << Text(QuotedClause), <<QuotedClause>> >> }

ClauseQueryInputs == { <<cq[1], NoParameters>> : cq \in ClauseQueries }

\* a clause followed by a bare "not"
NotOperators ==
    { <<"N","O","T"," ","C","O","N","T","A","I","N","S">>, <<"!","=">>,
      <<"N","O","T"," ","I","N">> }

TrailingNotInputs ==
    { <<Clause(f, op, <<"'","x","'">>) \o Sp \o c_not, NoParameters>> :
        f \in Fields, op \in NotOperators }

\* the empty query and a query of blanks
Blanks == { << >>, <<" "," ">>, <<"\t","\n">> }

BlankInputs == { <<q, NoParameters>> : q \in Blanks }

Inputs ==
    LiteralInputs \cup PlaceholderInputs \cup SpellingInputs \cup ListInputs
    \cup EmptyStringInputs \cup GarbledInputs \cup JoinedInputs
    \cup TrailingNotInputs \cup BlankInputs \cup SkippedMiddleInputs
    \cup ClauseQueryInputs

\* the inputs of two callers that share the translator
SharedInputs ==
    { <<Clause(<<"a">>, <<"=">>, <<"1">>), NoParameters>>,
      <<Joined(Clause(<<"a">>, <<"=">>, <<"1">>), c_and, Clause(<<"b">>, <<"!","=">>, <<"2">>)),
        NoParameters>>,
      <<Clause(<<"o",".","b">>, <<">">>, Placeholder), Bound(IntValue(42))>>,
      << << >>, NoParameters >> }

\* the inputs of one caller that calls parse several times in a row: one
\* clause, two clauses, a resolved placeholder, the empty query, and a clause
\* whose value makes the call raise
HistoryInputs ==
    { <<Clause(<<"a">>, <<"=">>, <<"1">>), NoParameters>>,
      <<Joined(Clause(<<"a">>, <<"=">>, <<"1">>), c_and, Clause(<<"b">>, <<"!","=">>, <<"2">>)),
        NoParameters>>,
      <<Clause(<<"o",".","b">>, <<">">>, Placeholder), Bound(IntValue(42))>>,
      << << >>, NoParameters >>,
      <<Clause(<<"a">>, <<"=">>, EmptyString), NoParameters>> }

\* the pairs of a workload
InputsOf(load) ==
    CASE load = "shared"  -> SharedInputs
      [] load = "history" -> HistoryInputs
      [] OTHER            -> Inputs

----------------------------------------------------------------------------
(* The translator of DjangoModelResource and the calls of parse on it      *)

VARIABLES
    order,      \* the order in which the dict listed the operators in __init__
    heap,       \* the list objects: heap[id] is the content of list id
    stack,      \* translator.stack: the id of the list the attribute names
    frame,      \* frame[t]: the locals of thread t's call of parse
    calls,      \* the number of calls of parse made
    limit,      \* the number of calls the callers make
    workload,   \* which (query, parameters) pairs the callers pass
    returned    \* the calls that have ended, in the order they ended, each as
                \* <<query, parameters, result>>

vars == <<order, heap, stack, frame, calls, limit, workload, returned>>

Threads == DOMAIN frame

\* a thread that is not in parse
Idle ==
    [pc |-> "idle", query |-> << >>, parameters |-> << >>, m |-> << >>, i |-> 0,
     iter |-> 0, pos |-> 0, obj |-> None, combinator |-> None, result |-> None]

\* the class attribute `stack = []` is list 1; translator() compiles the two
\* expressions from the operators in the order the dict lists them
Construct(threads, n, load) ==
    /\ order \in KeyOrders
    /\ heap = << << >> >>
    /\ stack = 1
    /\ frame = [t \in threads |-> Idle]
    /\ calls = 0
    /\ limit = n
    /\ workload = load
    /\ returned = << >>

\* one caller, one call
Init == Construct({1}, 1, "single")

\* the number of calls the threads that share a translator make in all
MaxSharedCalls == 2

\* two request threads on the translator of one resource
InitShared == Construct({1, 2}, MaxSharedCalls, "shared")

\* the number of calls one caller makes in a row
MaxCalls == 3

\* one request thread that calls parse again and again
InitHistory == Construct({1}, MaxCalls, "history")

\* the calls that have ended, with the call of frame f when it has just ended
Recorded(ended, f) ==
    IF f.pc = "done" THEN Append(ended, <<f.query, f.parameters, f.result>>)
    ELSE ended

\* parse, lines 182-191: a new list is bound to self.stack and the query is
\* cut into blocks
\* (a variant that returns an empty Q object for a query of blanks, as the
\* comment of line 181 puts it)
EnteredWithEmptyObject(query, parameters, m) ==
    IF strip(query) = << >>
    THEN [Idle EXCEPT !.pc = "done", !.query = query, !.parameters = parameters,
                      !.result = <<"return", <<"&">> >>]
    ELSE IF m = << >>
    THEN [Idle EXCEPT !.pc = "done", !.query = query, !.parameters = parameters,
                      !.result = <<"return", None>>]
    ELSE [Idle EXCEPT !.pc = "search", !.query = query, !.parameters = parameters,
                      !.m = m, !.i = 1]

Entered(query, parameters, m) ==
    IF IsEmptyQuery(query) \/ m = << >>
    THEN [Idle EXCEPT !.pc = "done", !.query = query, !.parameters = parameters,
                      !.result = <<"return", None>>]
    ELSE [Idle EXCEPT !.pc = "search", !.query = query, !.parameters = parameters,
                      !.m = m, !.i = 1]

\* (a variant without line 185: the calls go on appending to the one list)
ParseOnTheOldStack(t, query, parameters) ==
    /\ frame[t].pc \in {"idle", "done"}
    /\ calls < limit
    /\ calls' = calls + 1
    /\ frame' = [frame EXCEPT ![t] =
          Entered(query, parameters, findall(query, 1, operatorlist(order)))]
    /\ returned' = Recorded(returned, frame'[t])
    /\ UNCHANGED <<order, heap, stack, limit, workload>>

Parse(t, query, parameters) ==
    /\ frame[t].pc \in {"idle", "done"}
    /\ calls < limit
    /\ calls' = calls + 1
    /\ heap' = Append(heap, << >>)
    /\ stack' = Len(heap) + 1
    /\ frame' = [frame EXCEPT ![t] =
          Entered(query, parameters, findall(query, 1, operatorlist(order)))]
    /\ returned' = Recorded(returned, frame'[t])
    /\ UNCHANGED <<order, limit, workload>>

\* lines 194-201: the clause of block i is appended to the list self.stack names
Search(t) ==
    /\ frame[t].pc = "search"
    /\ heap' = [heap EXCEPT ![stack] =
          @ \o Tuples(frame[t].m[frame[t].i], operatorlist(order))]
    /\ frame' = [frame EXCEPT ![t].pc = "combinators"]
    /\ UNCHANGED <<order, stack, calls, limit, workload, returned>>

\* lines 202-204: the block's list of combinators is appended, and the loop
\* goes to the next block
Combinators(t) ==
    /\ frame[t].pc = "combinators"
    /\ heap' = [heap EXCEPT ![stack] = @ \o Lists(frame[t].m[frame[t].i])]
    /\ frame' = [frame EXCEPT ![t].i = @ + 1,
                              ![t].pc = IF frame[t].i < Len(frame[t].m)
                                        THEN "search" ELSE "iterate"]
    /\ UNCHANGED <<order, stack, calls, limit, workload, returned>>

\* lines 207-245: obj and combinator are None and the loop takes an iterator
\* on the list self.stack names at that moment
Iterate(t) ==
    /\ frame[t].pc = "iterate"
    /\ frame' = [frame EXCEPT ![t].pc = "fold", ![t].iter = stack, ![t].pos = 1,
                              ![t].obj = None, ![t].combinator = None]
    /\ UNCHANGED <<order, heap, stack, calls, limit, workload, returned>>

\* lines 245-291: one pass of the loop body, on the next entry of the list
Folded(f, next) ==
    IF next[1] = "raise"
    THEN [f EXCEPT !.pc = "done", !.result = next]
    ELSE [f EXCEPT !.pos = @ + 1, !.obj = next[1], !.combinator = next[2]]

Fold(t) ==
    /\ frame[t].pc = "fold"
    /\ frame[t].pos <= Len(heap[frame[t].iter])
    /\ frame' = [frame EXCEPT ![t] =
          Folded(@, FoldEntry(heap[frame[t].iter][frame[t].pos], frame[t].obj,
                             frame[t].combinator, frame[t].parameters))]
    /\ returned' = Recorded(returned, frame'[t])
    /\ UNCHANGED <<order, heap, stack, calls, limit, workload>>

\* line 293: the list is exhausted and obj is returned
Return(t) ==
    /\ frame[t].pc = "fold"
    /\ frame[t].pos > Len(heap[frame[t].iter])
    /\ frame' = [frame EXCEPT ![t].pc = "done",
                              ![t].result = <<"return", frame[t].obj>>]
    /\ returned' = Recorded(returned, frame'[t])
    /\ UNCHANGED <<order, heap, stack, calls, limit, workload>>

Next ==
    \/ \E t \in Threads : \E input \in InputsOf(workload) : Parse(t, input[1], input[2])
    \/ \E t \in Threads : Search(t)
    \/ \E t \in Threads : Combinators(t)
    \/ \E t \in Threads : Iterate(t)
    \/ \E t \in Threads : Fold(t)
    \/ \E t \in Threads : Return(t)

Spec == Init /\ [][Next]_vars

SpecShared == InitShared /\ [][Next]_vars

SpecHistory == InitHistory /\ [][Next]_vars

----------------------------------------------------------------------------
(* The predicates the properties below expect                              *)

\* thread t has returned from, or raised in, its call
Done(t) == frame[t].pc = "done"

\* thread t's call was parse(query, parameters) and has ended
Called(t, query, parameters) ==
    Done(t) /\ frame[t].query = query /\ frame[t].parameters = parameters

\* the operators whose clause is negated
NotVariants ==
    { <<"!","=">>,
      <<"N","O","T"," ","C","O","N","T","A","I","N","S">>,
      <<"N","O","T"," ","B","E","G","I","N","S","_","W","I","T","H">>,
      <<"N","O","T"," ","E","N","D","S","_","W","I","T","H">>,
      <<"N","O","T"," ","A","N","Y">>,
      <<"N","O","T"," ","I","N">> }

\* the one leaf of a clause: the field with "__" for dots, the lookup of the
\* operator, the literal; inside one negation for a NOT variant
ExpectedLeaf(field, op, literal) ==
    evaluate_not(op \in NotVariants,
                 Q(dots(field) \o <<"_", "_">> \o remove(Lookup(op), "~"), literal))

\* the parameter values with the literal each stands for: a text is coerced
\* like a value text of the query
Coerced(value) ==
    IF value = StrValue(<<"7">>) THEN IntValue(7) ELSE value

\* the leaves of a predicate
RECURSIVE Leaves(_)
Leaves(q) ==
    CASE q[1] = "Q" -> {q}
      [] q[1] = "~" -> Leaves(q[2])
      [] q[1] = "&" -> Leaves(q[2]) \cup Leaves(q[3])
      [] q[1] = "|" -> Leaves(q[2]) \cup Leaves(q[3])
      [] OTHER      -> {}

\* the leaves of a predicate from left to right, each without its negation
RECURSIVE LeafSequence(_)
LeafSequence(q) ==
    CASE q[1] = "Q" -> <<q>>
      [] q[1] = "~" -> LeafSequence(q[2])
      [] q[1] = "&" -> LeafSequence(q[2]) \o LeafSequence(q[3])
      [] q[1] = "|" -> LeafSequence(q[2]) \o LeafSequence(q[3])
      [] OTHER      -> << >>

\* a is b with some elements left out
RECURSIVE IsSubsequence(_, _)
IsSubsequence(a, b) ==
    IF a = << >> THEN TRUE
    ELSE IF b = << >> THEN FALSE
    ELSE IF a[1] = b[1] THEN IsSubsequence(Tail(a), Tail(b))
    ELSE IsSubsequence(a, Tail(b))

\* the leaf of each clause of a query, in the order of the text
LeavesOf(parts) ==
    [k \in DOMAIN parts |->
        Q(dots(parts[k][1]) \o <<"_", "_">> \o remove(Lookup(parts[k][2]), "~"),
          parts[k][4])]

\* q is one leaf, inside one negation when n is true and inside none when not
IsLeaf(q, n) == IF n THEN q[1] = "~" /\ q[2][1] = "Q" ELSE q[1] = "Q"

\* thread t's step is a pass of the second loop's body on a tuple entry
FoldsTuple(t) ==
    /\ frame[t].pc = "fold"
    /\ frame'[t].pc = "fold"
    /\ frame'[t].pos = frame[t].pos + 1
    /\ heap[frame[t].iter][frame[t].pos][1] = "tuple"

\* the operator token of the entry thread t is at
OperatorAt(t) == heap[frame[t].iter][frame[t].pos][3]

----------------------------------------------------------------------------
(* Properties                                                              *)

\* C1: every well-formed single clause "field OP value" - value a quoted
\* string, an integer, a list or a resolved placeholder, also when the quoted
\* string or the field holds the letters of a keyword - compiles to exactly the
\* one leaf of that field, operator and coerced value, negated only for a NOT
\* variant.
C1_SingleClauseIsItsLeaf ==
    \A t \in Threads : Done(t) =>
        /\ \A f \in Fields, op \in OperatorKeys, v \in Values :
              Called(t, Clause(f, op, v[1]), NoParameters)
              => frame[t].result = <<"return", ExpectedLeaf(f, op, v[2])>>
        /\ \A f \in Fields, op \in OperatorKeys :
              Called(t, Clause(f, op, Placeholder), Bound(IntValue(42)))
              => frame[t].result = <<"return", ExpectedLeaf(f, op, IntValue(42))>>

\* C2: a placeholder with no entry in the parameter map makes the call fail,
\* and no returned predicate has a leaf whose value is the placeholder text.
C2_UnresolvedParameterFails ==
    \A t \in Threads : Done(t) =>
        /\ \A f \in Fields, op \in OperatorKeys :
              Called(t, Clause(f, op, Placeholder), NoParameters)
              => frame[t].result[1] = "raise"
        /\ frame[t].result[1] = "return"
              => \A leaf \in Leaves(frame[t].result[2]) :
                    leaf[3] # StrValue(Placeholder)

\* C3: a placeholder with an entry in the parameter map gives the leaf the
\* mapped value (a text coerced again), for every value, 0 and "" included.
C3_ParameterIsSubstituted ==
    \A t \in Threads : Done(t) =>
        \A f \in Fields, op \in OperatorKeys, v \in ParameterValues :
            Called(t, Clause(f, op, Placeholder), Bound(v))
            => frame[t].result = <<"return", ExpectedLeaf(f, op, Coerced(v))>>

\* C4: on a translator shared by concurrent callers every call returns what it
\* returns when run alone, whatever the interleaving.
C4_SharedCallsAreIndependent ==
    \A t \in Threads : Done(t) =>
        frame[t].result = parse(frame[t].query, frame[t].parameters, order)

\* C5: parse never raises: an operator token that is no key of the table only
\* drops its block, and the values '' and () are coerced without an exception.
C5_NeverRaises ==
    \A t \in Threads : Done(t) => frame[t].result[1] # "raise"

\* C6: operator tokens are case-insensitive: a clause whose operator is spelled
\* in upper or lower case compiles as with the table's spelling.
C6_OperatorCaseIsIgnored ==
    \A t \in Threads : Done(t) =>
        \A op \in OperatorKeys : \A sp \in Spellings(op) :
            Called(t, Clause(<<"a">>, sp, <<"1","2">>), NoParameters)
            => frame[t].result = <<"return", ExpectedLeaf(<<"a">>, op, IntValue(12))>>

\* C7: a well-formed clause and a garbled one, joined by a keyword in either
\* order, compile without error to the predicate of the well-formed clause.
C7_GarbledClauseIsSkipped ==
    \A t \in Threads : Done(t) =>
        \A g \in GoodParts, k \in Keywords, b \in GarbledClauses :
            \/ Called(t, Joined(Clause(g[1], g[2], g[3]), k, b), NoParameters)
            \/ Called(t, Joined(b, k, Clause(g[1], g[2], g[3])), NoParameters)
            => frame[t].result = <<"return", ExpectedLeaf(g[1], g[2], g[4])>>

\* C8: a run between two clauses that holds both "and" and "or" combines the
\* two clauses with AND.
C8_AndWinsOverOr ==
    \A t \in Threads : Done(t) =>
        \A r \in { <<"a","n","d"," ","o","r">>, <<"o","r"," ","a","n","d">> },
           op \in { <<"=">>, <<"!","=">> } :
            Called(t, Joined(Clause(<<"a">>, <<"=">>, <<"1">>), r,
                             Clause(<<"b">>, op, <<"2">>)), NoParameters)
            => frame[t].result =
                  <<"return", And(ExpectedLeaf(<<"a">>, <<"=">>, IntValue(1)),
                                  ExpectedLeaf(<<"b">>, op, IntValue(2)))>>

\* C9: "field NOT CONTAINS 'x' not" compiles to the predicate of
\* "field CONTAINS 'x'": the operator's negation and the trailing "not" cancel.
C9_TrailingNotCancels ==
    \A t \in Threads : Done(t) =>
        \A f \in Fields :
            Called(t, Clause(f, <<"N","O","T"," ","C","O","N","T","A","I","N","S">>,
                             <<"'","x","'">>) \o Sp \o c_not, NoParameters)
            => frame[t].result =
                  parse(Clause(f, <<"C","O","N","T","A","I","N","S">>, <<"'","x","'">>),
                        NoParameters, order)

\* C10: a clause whose value is a parenthesized flat list compiles to a leaf
\* whose value is the list of the coerced elements in order, for every length,
\* the empty list "()" included.
C10_ListValueIsCoerced ==
    \A t \in Threads : Done(t) =>
        \A op \in ListOperators, l \in Lists123 :
            Called(t, Clause(<<"a">>, op, l[1]), NoParameters)
            => frame[t].result = <<"return", ExpectedLeaf(<<"a">>, op, ListValue(l[2]))>>

C12_SameCallSameResult ==
    \A i \in DOMAIN returned, j \in DOMAIN returned :
        returned[i][1] = returned[j][1] /\ returned[i][2] = returned[j][2]
        => returned[i][3] = returned[j][3]

C12_SameCallAfterAnother ==
    /\ Len(returned) = 3
    /\ returned[1][1] = returned[3][1] /\ returned[1][2] = returned[3][2]
    /\ returned[2][1] # returned[1][1] /\ returned[2][1] # << >>
    /\ returned[1][3] = returned[3][3]
    /\ returned[3][3][1] = "return" /\ returned[3][3][2] # None

\* C13: a run of two keywords is honoured on the next clause: "A and not B"
\* compiles to And(A, Not(B)) and "A or not B" to Or(A, Not(B)), for a clause B
\* with an operator that does not negate; B is never left out.
C13_AndNotNegatesTheNextClause ==
    \A t \in Threads : Done(t) =>
        /\ Called(t, Joined(Clause(<<"a">>, <<"=">>, <<"1">>), c_and \o Sp \o c_not,
                            Clause(<<"b">>, <<"=">>, <<"2">>)), NoParameters)
           => frame[t].result =
                 <<"return", And(ExpectedLeaf(<<"a">>, <<"=">>, IntValue(1)),
                                 Invert(ExpectedLeaf(<<"b">>, <<"=">>, IntValue(2))))>>
        /\ Called(t, Joined(Clause(<<"a">>, <<"=">>, <<"1">>), c_or \o Sp \o c_not,
                            Clause(<<"b">>, <<"=">>, <<"2">>)), NoParameters)
           => frame[t].result =
                 <<"return", Or(ExpectedLeaf(<<"a">>, <<"=">>, IntValue(1)),
                                Invert(ExpectedLeaf(<<"b">>, <<"=">>, IntValue(2))))>>

\* C14: the combinators of a block whose clause was skipped are not lost: the
\* clause after them is combined under the union of the flags of all the
\* combinator segments since the last clause, so "and" then "or" (in either
\* order) combines with AND, and a "not" among them negates the clause.
C14_CombinatorsAccumulate ==
    \A t \in Threads : Done(t) =>
        \A k1 \in Range(logiclist), b \in GarbledClauses, k2 \in Range(logiclist) :
            /\ Called(t, SkippedMiddle(k1, b, k2), NoParameters)
            /\ {k1, k2} \cap {c_and, c_or} # {}
            => frame[t].result =
                  <<"return",
                    Combine(ExpectedLeaf(<<"c">>, <<"=">>, IntValue(3)),
                            ExpectedLeaf(<<"a">>, <<"=">>, IntValue(1)),
                            logic_expression(<<k1, k2>>))[1]>>

\* C15: the leaves of a returned predicate, read from left to right, are
\* leaves of the query's clauses in the order of the text, each clause giving
\* at most one leaf: nothing is duplicated, reordered or invented.
C15_LeavesFollowTheClauses ==
    \A t \in Threads : Done(t) /\ frame[t].result[1] = "return" =>
        \A cq \in ClauseQueries :
            Called(t, cq[1], NoParameters)
            => IsSubsequence(LeafSequence(frame[t].result[2]), LeavesOf(cq[2]))

\* C16: negation is an exclusive-or.  The pass of the fold on a clause with no
\* pending combinator makes obj the clause's leaf, inside one Not exactly when
\* the operator is a NOT variant; the pass that combines a clause under a
\* pending combinator puts to the right of obj the clause's leaf, inside one
\* Not exactly when the combinator's not flag differs from "the operator is a
\* NOT variant"; never inside two.
C16_NegationIsExclusiveOr ==
    [][\A t \in Threads : FoldsTuple(t) =>
          IF frame[t].combinator = None
          THEN IsLeaf(frame'[t].obj, OperatorAt(t) \in NotVariants)
          ELSE IF has_and(frame[t].combinator) \/ has_or(frame[t].combinator)
          THEN /\ frame'[t].obj[1] = (IF has_and(frame[t].combinator) THEN "&" ELSE "|")
               /\ frame'[t].obj[2] = frame[t].obj
               /\ IsLeaf(frame'[t].obj[3],
                         has_not(frame[t].combinator) # (OperatorAt(t) \in NotVariants))
          ELSE TRUE]_vars

C16_NotVariantCombined ==
    \E t \in Threads :
        /\ Called(t, Joined(Clause(<<"a">>, <<"=">>, <<"1">>), c_or,
                            Clause(<<"b">>, <<"!","=">>, <<"2">>)), NoParameters)
        /\ frame[t].result =
              <<"return", Or(Q(<<"a","_","_","e","x","a","c","t">>, IntValue(1)),
                             Invert(Q(<<"b","_","_","e","x","a","c","t">>, IntValue(2))))>>

\* C17: a pass of the fold on a clause while the pending combinator has neither
\* has_and nor has_or (its run was "not", or no keyword such as "andor")
\* leaves obj as it was: the clause adds no leaf.
C17_ClauseWithoutAndOrIsDropped ==
    [][\A t \in Threads :
          /\ FoldsTuple(t)
          /\ frame[t].combinator # None
          /\ ~has_and(frame[t].combinator)
          /\ ~has_or(frame[t].combinator)
          => frame'[t].obj = frame[t].obj]_vars

C17_ClauseAfterNotDropped ==
    \E t \in Threads :
        /\ frame[t].query = Joined(Clause(<<"a">>, <<"=">>, <<"1">>), c_not,
                                   Clause(<<"b">>, <<"=">>, <<"2">>))
        /\ frame[t].pc = "fold"
        /\ frame[t].pos = 4
        /\ heap[frame[t].iter][3][1] = "tuple"
        /\ frame[t].combinator # None
        /\ ~has_and(frame[t].combinator) /\ ~has_or(frame[t].combinator)
        /\ frame[t].obj = Q(<<"a","_","_","e","x","a","c","t">>, IntValue(1))

====
